---- MODULE Spec2Model ----
(***************************************************************************)
(* A model of poinsseta's effective_area.py: the per-elevation Monte-Carlo *)
(* loop `calculate`, the result entity EffectiveArea with its combination  *)
(* rule `__add__`, and the loaders `from_file` / `from_files`.             *)
(*                                                                         *)
(* Real numbers are exact rationals <<numerator, denominator>> in lowest   *)
(* terms.  Elevations are integers in units of 1e-8 degree, altitudes are  *)
(* integers in units of 1e-5 km.                                           *)
(***************************************************************************)
EXTENDS Integers, Sequences, FiniteSets, TLC

(***************************************************************************)
(* Bounds of the model.                                                    *)
(***************************************************************************)
\* the largest trial count N[i] handed to calculate, hence the largest batch
MaxN == 2
\* the largest number of file names handed to from_files
MaxFiles == 3
\* the largest number of __add__ calls in a combination run
MaxCalls == 2

(***************************************************************************)
(* Exact arithmetic.                                                       *)
(***************************************************************************)
Abs(x) == IF x < 0 THEN -x ELSE x

RECURSIVE GCD(_, _)
GCD(a, b) == IF b = 0 THEN a ELSE GCD(b, a % b)

\* the rational n/d (d > 0) in lowest terms
Rat(n, d) ==
  LET g == GCD(Abs(n), d)
  IN  <<n \div g, d \div g>>

Zero == Rat(0, 1)

RAdd(x, y) == Rat(x[1] * y[2] + y[1] * x[2], x[2] * y[2])

RMul(x, y) == Rat(x[1] * y[1], x[2] * y[2])

RHalf(x) == Rat(x[1], 2 * x[2])

RLeq(x, y) == x[1] * y[2] <= y[1] * x[2]

RECURSIVE SeqSum(_)
SeqSum(s) == IF s = << >> THEN 0 ELSE Head(s) + SeqSum(Tail(s))

\* all sequences over S of length 0..n
SeqsUpTo(S, n) == UNION {[1..k -> S] : k \in 0..n}

(***************************************************************************)
(* State.                                                                  *)
(***************************************************************************)
VARIABLES
  \* ---- calculate ----
  N,              \* trial count per elevation bin (after the broadcast)
  elev,           \* the elevation grid, in units of pi/180 rad
  samples,        \* what the collaborators return for each bin (fixed by the seed)
  i,              \* the loop index of `for i in ...`, 1-based
  effective_area, \* output array, indexed [bin][azimuth]
  geometric,      \* output array
  pexit,          \* output array
  pdecay,         \* output array
  ptrigger,       \* output array
  Ptrig,          \* the local Ptrig as the last iteration left it
  gain,           \* the local `gain`: "unbound" until an iteration assigns it
  cpc,            \* where calculate is: "loop", "returned", "raised"
  ret,            \* the EffectiveArea calculate returned, or None
  \* ---- EffectiveArea instances, __add__, from_files ----
  heap,           \* the EffectiveArea instances alive, by identity 1..Len(heap)
  log,            \* the __add__ calls made: [self, other, out], out an identity or an error
  files,          \* the pickled results on disk, by file name 1..Len(files)
  filenames,      \* the argument of from_files
  k,              \* position in filenames of the next file from_files loads
  Aeff,           \* the local Aeff of from_files (an identity), 0 before the first load
  opened,         \* the file names from_files has opened so far
  skipped,        \* the positions in filenames whose entry was skipped
  fpc             \* where from_files is: "idle", "loop", "returned", "raised"

cvars == <<N, elev, samples, i, effective_area, geometric, pexit, pdecay,
           ptrigger, Ptrig, gain, cpc, ret>>
hvars == <<heap, log>>
fvars == <<files, filenames, k, Aeff, opened, skipped, fpc>>
vars == <<cvars, hvars, fvars>>

None == "None"

(***************************************************************************)
(* calculate: inputs.                                                      *)
(***************************************************************************)
\* altitude: float = 3.87553, in units of 1e-5 km
DefaultAltitude == 387553

\* azimuths: np.ndarray = np.array([0]); only its size matters
AzimuthsSize == 1

\* geometry.distance_to_horizon(height=altitude, thickness=icethickness)
horizon_distance == 2

\* geometry.horizon_angle(altitude, icethickness); more negative is lower
horizon_angle == -2

\* Ag.area of a batch
Areas == {1, 2}

\* one Monte-Carlo trial as the collaborators describe it: Ag.dot, Pexit,
\* Pdecay, the outcome of the trigger heuristic, and D and theta of its
\* decay point
TrialsCalc ==
  [dot : {1, 2}, Pexit : {0, 1}, Pdecay : {1}, Ptrig : {TRUE},
   D : {1}, theta : {-1}]

TrialsVis ==
  [dot : {1}, Pexit : {0, 1}, Pdecay : {0, 1}, Ptrig : BOOLEAN,
   D : {1, 3}, theta : {-3, -1, 1}]

\* the batches of at most n trials
Batches(T, n) == [area : Areas, trials : SeqsUpTo(T, n)]

\* np.degrees(elev), in units of 1e-8 degree
Degrees(e) == [b \in DOMAIN e |-> e[b] * 100000000]

\* the args dictionary built at the end of calculate
CalcArgs(g) ==
  [Enu |-> 1, altitude |-> DefaultAltitude, prototype |-> 2018, maxview |-> 3,
   icethickness |-> 0, antennas |-> 4, gain |-> g, trigger_SNR |-> 5,
   minfreq |-> 30, maxfreq |-> 80]

(***************************************************************************)
(* calculate: one iteration of the loop over elevation bins.               *)
(***************************************************************************)
\* a column of the batch as an array
Column(trials, f) == [t \in DOMAIN trials |-> trials[t][f]]

\* beyond = D > horizon_distance
beyond(D) == [t \in DOMAIN D |-> D[t] > horizon_distance]

\* below = theta < geometry.horizon_angle(altitude, icethickness)
below(theta) == [t \in DOMAIN theta |-> theta[t] < horizon_angle]

\* invisible with np.logical_or in place of np.logical_and
invisibleEither(D, theta) == [t \in DOMAIN D |-> beyond(D)[t] \/ below(theta)[t]]

\* invisible = np.logical_and(beyond, below)
invisible(D, theta) == [t \in DOMAIN D |-> beyond(D)[t] /\ below(theta)[t]]

\* Ptrig[invisible] = 0.0 ; Ptrig[theta > 0.0] = 0.0
Cut(raw, D, theta) ==
  [t \in DOMAIN raw |->
     IF invisible(D, theta)[t] THEN FALSE
     ELSE IF theta[t] > 0 THEN FALSE
     ELSE raw[t]]

\* a boolean array as 0/1
Ind(b) == IF b THEN 1 ELSE 0

\* (Ag.area * np.sum(Ag.dot)) / ntrials
GeometricOf(area, dot, ntrials) == Rat(area * SeqSum(dot), ntrials)

\* np.mean(x) of a non-empty 0/1 array
Mean(x) == Rat(SeqSum(x), Len(x))

\* the effective area as a mean over the batch in place of a sum over ntrials
EffectiveOfMean(area, dot, Pe, Pd, Pt, ntrials) ==
  Rat(SeqSum([t \in DOMAIN dot |-> area * dot[t] * Pe[t] * Pd[t] * Ind(Pt[t])]),
      Len(dot))

\* np.sum((Ag.area * Ag.dot * Pexit * Pdecay) * Ptrig, axis=0) / ntrials
EffectiveOf(area, dot, Pe, Pd, Pt, ntrials) ==
  Rat(SeqSum([t \in DOMAIN dot |-> area * dot[t] * Pe[t] * Pd[t] * Ind(Pt[t])]),
      ntrials)

\* effective_area[i, :] = scalar
Row(x) == [j \in 1..AzimuthsSize |-> x]

\* if Ag.emergence.size == 0: continue
Skip ==
  /\ cpc = "loop"
  /\ i <= Len(elev)
  /\ Len(samples[i].trials) = 0
  /\ i' = i + 1
  /\ UNCHANGED <<N, elev, samples, effective_area, geometric, pexit, pdecay,
                 ptrigger, Ptrig, gain, cpc, ret>>
  /\ UNCHANGED <<hvars, fvars>>

\* the body of the loop for a bin with passing events
Body ==
  /\ cpc = "loop"
  /\ i <= Len(elev)
  /\ Len(samples[i].trials) > 0
  /\ LET Ag     == samples[i]
         dot    == Column(Ag.trials, "dot")
         Pexit  == Column(Ag.trials, "Pexit")
         Pdecay == Column(Ag.trials, "Pdecay")
         raw    == Column(Ag.trials, "Ptrig")
         D      == Column(Ag.trials, "D")
         theta  == Column(Ag.trials, "theta")
         Pt     == Cut(raw, D, theta)
         ntrials == N[i]
     IN  /\ Ptrig' = Pt
         /\ gain' = "directivity"
         /\ geometric' = [geometric EXCEPT ![i] = GeometricOf(Ag.area, dot, ntrials)]
         /\ pexit' = [pexit EXCEPT ![i] = Mean(Pexit)]
         /\ pdecay' = [pdecay EXCEPT ![i] = Mean(Pdecay)]
         /\ ptrigger' = [ptrigger EXCEPT ![i] = Mean([t \in DOMAIN Pt |-> Ind(Pt[t])])]
         /\ effective_area' =
              [effective_area EXCEPT
                 ![i] = Row(EffectiveOf(Ag.area, dot, Pexit, Pdecay, Pt, ntrials))]
  /\ i' = i + 1
  /\ UNCHANGED <<N, elev, samples, cpc, ret>>
  /\ UNCHANGED <<hvars, fvars>>

\* after the loop: args = {..., "gain": gain, ...} reads the local `gain`,
\* which only an iteration that was not skipped has bound
RaiseUnbound ==
  /\ cpc = "loop"
  /\ i > Len(elev)
  /\ gain = "unbound"
  /\ cpc' = "raised"
  /\ UNCHANGED <<N, elev, samples, i, effective_area, geometric, pexit, pdecay,
                 ptrigger, Ptrig, gain, ret>>
  /\ UNCHANGED <<hvars, fvars>>

\* return EffectiveArea(N, np.degrees(elev), effective_area, ..., args)
Return ==
  /\ cpc = "loop"
  /\ i > Len(elev)
  /\ gain # "unbound"
  /\ cpc' = "returned"
  /\ ret' = [N0 |-> N, elevation |-> Degrees(elev),
             effective_area |-> effective_area, geometric |-> geometric,
             pexit |-> pexit, pdecay |-> pdecay, ptrigger |-> ptrigger,
             args |-> CalcArgs(gain)]
  /\ UNCHANGED <<N, elev, samples, i, effective_area, geometric, pexit, pdecay,
                 ptrigger, Ptrig, gain>>
  /\ UNCHANGED <<hvars, fvars>>

\* the elevation grids handed to calculate
ElevGrids == {<<-5>>, <<-5, -10>>}

\* the state of the parts of the program a run does not use
IdleHeap == heap = << >> /\ log = {}
IdleFiles ==
  /\ files = << >> /\ filenames = << >> /\ k = 0 /\ Aeff = 0
  /\ opened = {} /\ skipped = {} /\ fpc = "idle"

\* calculate entered with its arrays zero-initialised, trials drawn from T
InitCalculate(T, grids) ==
  /\ elev \in grids
  /\ N \in [DOMAIN elev -> 1..MaxN]
  /\ samples \in {s \in [DOMAIN elev -> Batches(T, MaxN)] :
                    \A b \in DOMAIN elev : Len(s[b].trials) <= N[b]}
  /\ i = 1
  /\ effective_area = [b \in DOMAIN elev |-> Row(Zero)]
  /\ geometric = [b \in DOMAIN elev |-> Zero]
  /\ pexit = [b \in DOMAIN elev |-> Zero]
  /\ pdecay = [b \in DOMAIN elev |-> Zero]
  /\ ptrigger = [b \in DOMAIN elev |-> Zero]
  /\ Ptrig = << >>
  /\ gain = "unbound"
  /\ cpc = "loop"
  /\ ret = None
  /\ IdleHeap
  /\ IdleFiles

NextCalc == Skip \/ Body \/ RaiseUnbound \/ Return

InitCalc == InitCalculate(TrialsCalc, ElevGrids)
SpecCalc == InitCalc /\ [][NextCalc]_vars

InitVis == InitCalculate(TrialsVis, {<<-5>>})
SpecVis == InitVis /\ [][NextCalc]_vars

(***************************************************************************)
(* EffectiveArea.__add__                                                   *)
(***************************************************************************)
\* np.isclose's default atol = 1e-8, in units of 1e-8 degree
isclose_atol == 1

\* 1 / rtol for np.isclose's default rtol = 1e-5
isclose_inv_rtol == 100000

\* units of elevation per degree
UnitsPerDegree == 100000000

\* the width of a binary64 significand
Precision == 53

\* the width of the whole numbers the model converts to binary64
IntBits == 31

(* binary64 arithmetic, for the cases the rounding decides.  A number is    *)
(* [m |-> bits, e |-> exponent]: the bits of its significand, most          *)
(* significant first (exactly Precision of them, the first one 1), times    *)
(* 2^e; zero has no bits.                                                   *)
FZero == [m |-> << >>, e |-> 0]

\* bits without the zeros in front
StripZeros(bits) ==
  LET ones == {j \in DOMAIN bits : bits[j] = 1}
  IN  IF ones = {} THEN << >>
      ELSE SubSeq(bits, CHOOSE j \in ones : \A l \in ones : j <= l, Len(bits))

Max(x, y) == IF x > y THEN x ELSE y

Min(x, y) == IF x < y THEN x ELSE y

\* bits with zeros in front, to length n
PadLeft(bits, n) ==
  [j \in 1..n |-> IF j <= n - Len(bits) THEN 0 ELSE bits[j - (n - Len(bits))]]

\* bits followed by n zeros
ShiftLeft(bits, n) ==
  [j \in 1..(Len(bits) + n) |-> IF j <= Len(bits) THEN bits[j] ELSE 0]

\* one column of x + y, from the right, with the carry c
AddStep(s) ==
  LET t == s.x[s.n] + s.y[s.n] + s.c
  IN  [s EXCEPT !.n = @ - 1, !.c = t \div 2, !.out = <<t % 2>> \o @]

\* n steps of the addition from the state s, by halves, stopping once it is done
RECURSIVE AddSteps(_, _)
AddSteps(n, s) ==
  IF n = 0 THEN s
  ELSE IF n = 1 THEN AddStep(s)
  ELSE LET half == AddSteps(n \div 2, s)
       IN  IF half.n = 0 THEN half ELSE AddSteps(n - (n \div 2), half)

AddBits(x, y) ==
  LET n == Max(Len(x), Len(y))
      s == AddSteps(n, [x |-> PadLeft(x, n), y |-> PadLeft(y, n),
                                n |-> n, c |-> 0, out |-> << >>])
  IN  IF s.c = 1 THEN <<1>> \o s.out ELSE s.out

\* one column of x - y, from the right, with the borrow c
SubStep(s) ==
  LET t == s.x[s.n] - s.y[s.n] - s.c
  IN  [s EXCEPT !.n = @ - 1, !.c = IF t < 0 THEN 1 ELSE 0,
                !.out = <<(t + 2) % 2>> \o @]

\* n steps of the subtraction from the state s, by halves, stopping once it is done
RECURSIVE SubSteps(_, _)
SubSteps(n, s) ==
  IF n = 0 THEN s
  ELSE IF n = 1 THEN SubStep(s)
  ELSE LET half == SubSteps(n \div 2, s)
       IN  IF half.n = 0 THEN half ELSE SubSteps(n - (n \div 2), half)

\* x - y for x >= y
SubBits(x, y) ==
  LET n == Max(Len(x), Len(y))
  IN  SubSteps(n, [x |-> PadLeft(x, n), y |-> PadLeft(y, n),
                           n |-> n, c |-> 0, out |-> << >>]).out

\* x < y as numbers
LessBits(x0, y0) ==
  LET n == Max(Len(x0), Len(y0))
      x == PadLeft(x0, n)
      y == PadLeft(y0, n)
  IN  \E j \in 1..n : x[j] < y[j] /\ \A l \in 1..(j - 1) : x[l] = y[l]

\* round-to-nearest-even of bits * 2^e (plus a nonzero rest below the last
\* bit when sticky) to a binary64
RoundBits(bits0, e, sticky) ==
  LET bits == StripZeros(bits0)
      n == Len(bits)
  IN  IF n = 0 THEN FZero
      ELSE IF n <= Precision
      THEN [m |-> ShiftLeft(bits, Precision - n), e |-> e - (Precision - n)]
      ELSE LET m == SubSeq(bits, 1, Precision)
               guard == bits[Precision + 1]
               rest == sticky \/ \E j \in (Precision + 2)..n : bits[j] = 1
               up == guard = 1 /\ (rest \/ m[Precision] = 1)
               r == IF up THEN AddBits(m, <<1>>) ELSE m
           IN  IF Len(r) > Precision
               THEN [m |-> SubSeq(r, 1, Precision), e |-> e + (n - Precision) + 1]
               ELSE [m |-> r, e |-> e + (n - Precision)]

RECURSIVE Pow2(_)
Pow2(n) == IF n = 0 THEN 1 ELSE 2 * Pow2(n - 1)

\* one step of the long division of p by q: bring down one bit of p (a zero
\* after its last bit), until the quotient has a guard bit after its
\* significand
QuotStep(s) ==
  IF Len(s.qb) = Precision + 1 THEN s
  ELSE LET bit == IF s.j < IntBits
                  THEN (s.p \div Pow2(IntBits - 1 - s.j)) % 2 ELSE 0
           r2 == 2 * s.rem + bit
           b == IF r2 >= s.q THEN 1 ELSE 0
       IN  [s EXCEPT !.j = @ + 1, !.rem = r2 - b * s.q,
                     !.qb = IF @ # << >> \/ b = 1 THEN Append(@, b) ELSE @]

\* n steps of the long division from the state s, by halves, stopping once it is done
RECURSIVE QuotIterate(_, _)
QuotIterate(n, s) ==
  IF n = 0 THEN s
  ELSE IF n = 1 THEN QuotStep(s)
  ELSE LET half == QuotIterate(n \div 2, s)
       IN  IF Len(half.qb) = Precision + 1 THEN half
           ELSE QuotIterate(n - (n \div 2), half)

\* the steps after which every quotient has its guard bit: it is more than
\* 2^(-IntBits)
QuotSteps == 2 * IntBits + Precision + 1

\* the binary64 nearest to p / q, for whole numbers 0 <= p, 0 < q below
\* 2^IntBits
Quot(p, q) ==
  IF p = 0 THEN FZero
  ELSE LET s == QuotIterate(QuotSteps,
                        [p |-> p, q |-> q, j |-> 0, rem |-> 0, qb |-> << >>])
       IN  RoundBits(s.qb, IntBits - s.j, s.rem # 0)

\* the exact product of two significands: the column of weight
\* 2^(Len(x) + Len(y) - c) holds one 1 for every pair of 1 bits x[j] and
\* y[c - j], and the columns are added up from the right with the carry
MulBits(x, y) ==
  LET n == Len(x) + Len(y)
      cols == [c \in 1..n |->
                 Cardinality({j \in DOMAIN x :
                                /\ x[j] = 1
                                /\ (c - j) \in DOMAIN y
                                /\ y[c - j] = 1})]
  IN  AddSteps(n, [x |-> cols, y |-> [c \in 1..n |-> 0],
                   n |-> n, c |-> 0, out |-> << >>]).out

\* x * y in binary64
FMul(x, y) ==
  IF x.m = << >> \/ y.m = << >> THEN FZero
  ELSE RoundBits(MulBits(x.m, y.m), x.e + y.e, FALSE)

\* x + y in binary64, x and y not negative
FAdd(x, y) ==
  IF x.m = << >> THEN y
  ELSE IF y.m = << >> THEN x
  ELSE LET e == Min(x.e, y.e)
       IN  RoundBits(AddBits(ShiftLeft(x.m, x.e - e), ShiftLeft(y.m, y.e - e)),
                     e, FALSE)

\* |x - y| in binary64, x and y not negative
FAbsDiff(x, y) ==
  IF x.m = << >> THEN y
  ELSE IF y.m = << >> THEN x
  ELSE LET e == Min(x.e, y.e)
           a == ShiftLeft(x.m, x.e - e)
           b == ShiftLeft(y.m, y.e - e)
       IN  RoundBits(IF LessBits(a, b) THEN SubBits(b, a) ELSE SubBits(a, b),
                     e, FALSE)

\* x <= y for two binary64 that are not negative
FLeq(x, y) ==
  IF x.m = << >> THEN TRUE
  ELSE IF y.m = << >> THEN FALSE
  ELSE LET e == Min(x.e, y.e)
       IN  ~LessBits(ShiftLeft(y.m, y.e - e), ShiftLeft(x.m, x.e - e))

\* np.isclose's default atol = 1e-8 degree, as a binary64
atol == Quot(isclose_atol, UnitsPerDegree)

\* np.isclose's default rtol = 1e-5, as a binary64
rtol == Quot(1, isclose_inv_rtol)

\* abs(x - y) <= atol + rtol * abs(y) as numpy evaluates it in binary64, for
\* the elevations a and b (whole numbers of units)
FloatClose(a, b) ==
  LET x == Quot(Abs(a), UnitsPerDegree)
      y == Quot(Abs(b), UnitsPerDegree)
      sameSign == (a < 0) = (b < 0) \/ a = 0 \/ b = 0
      d == IF sameSign THEN FAbsDiff(x, y) ELSE FAdd(x, y)
  IN  FLeq(d, FAdd(atol, FMul(rtol, y)))

\* |a - b| equals atol + rtol * |b| exactly: the rounding decides
ExactTie(a, b) ==
  /\ Abs(b) % isclose_inv_rtol = 0
  /\ Abs(a - b) = isclose_atol + (Abs(b) \div isclose_inv_rtol)

\* np.isclose(a, b): abs(a - b) <= atol + rtol * abs(b) in binary64.  Away
\* from an exact tie the two sides differ by at least 1e-13 degree, far more
\* than the rounding, so the test is the one on the whole numbers of units,
\* |a - b| <= atol + floor(|b| / (1/rtol)); at a tie it is evaluated in
\* binary64
isclose(a, b) ==
  IF ExactTie(a, b) THEN FloatClose(a, b)
  ELSE Abs(a - b) <= isclose_atol + (Abs(b) \div isclose_inv_rtol)

\* np.isclose(self.elevation, other.elevation).all() for equal sizes
allclose(x, y) == \A b \in DOMAIN x : isclose(x[b], y[b])

\* 0.5 * x + y: the average with the parentheses lost
AverageLeftHalf(x, y) == RAdd(RHalf(x), y)

\* 0.5 * (x + y) for two reals
Average(x, y) == RHalf(RAdd(x, y))

\* the elementwise sum, without the factor 0.5
Average1NoHalf(x, y) == [b \in DOMAIN x |-> RAdd(x[b], y[b])]

\* 0.5 * (self.x + other.x) elementwise on 1-D arrays
Average1(x, y) == [b \in DOMAIN x |-> Average(x[b], y[b])]

\* 0.5 * (self.effective_area + other.effective_area) on the 2-D array
Average2(x, y) == [b \in DOMAIN x |-> [j \in DOMAIN x[b] |-> Average(x[b][j], y[b][j])]]

\* N0 taken from self alone
SumN0Self(x, y) == x

\* self.N0 + other.N0
SumN0(x, y) == [b \in DOMAIN x |-> x[b] + y[b]]

\* __add__ without the comparison of args
RaiseLineNoArgs(self, other) ==
  IF ~(Len(self.elevation) = Len(other.elevation)) THEN 68
  ELSE IF ~allclose(self.elevation, other.elevation) THEN 77
  ELSE 0

\* the line of __add__ that raises ValueError for these operands, 0 if none
RaiseLine(self, other) ==
  IF ~(Len(self.elevation) = Len(other.elevation)) THEN 68
  ELSE IF ~allclose(self.elevation, other.elevation) THEN 77
  ELSE IF self.args # other.args THEN 92
  ELSE 0

\* the EffectiveArea(...) that __add__ constructs when nothing raises
Combined(self, other) ==
  [N0 |-> SumN0(self.N0, other.N0),
   elevation |-> self.elevation,
   effective_area |-> Average2(self.effective_area, other.effective_area),
   geometric |-> Average1(self.geometric, other.geometric),
   pexit |-> Average1(self.pexit, other.pexit),
   pdecay |-> Average1(self.pdecay, other.pdecay),
   ptrigger |-> Average1(self.ptrigger, other.ptrigger),
   args |-> self.args]

\* an __add__ that updates self in place and returns it
addInPlace(h, x, y) ==
  LET line == RaiseLine(h[x], h[y])
  IN  IF line # 0
      THEN [heap |-> h, out |-> 0, line |-> line]
      ELSE [heap |-> [h EXCEPT ![x] = Combined(h[x], h[y])], out |-> x,
            line |-> 0]

\* self + other on the instances x and y of heap h: the heap afterwards, the
\* identity of the returned instance (0 if it raised) and the raising line
add(h, x, y) ==
  LET line == RaiseLine(h[x], h[y])
  IN  IF line # 0
      THEN [heap |-> h, out |-> 0, line |-> line]
      ELSE [heap |-> Append(h, Combined(h[x], h[y])), out |-> Len(h) + 1,
            line |-> 0]

\* the evaluation of heap[x] + heap[y]
Add(x, y) ==
  /\ LET r == add(heap, x, y)
     IN  /\ heap' = r.heap
         /\ log' = log \cup {[self |-> x, other |-> y, out |-> r.out, line |-> r.line]}
  /\ UNCHANGED <<cvars, fvars>>

(***************************************************************************)
(* Stored results.                                                         *)
(***************************************************************************)
\* altitude compared against in from_files, in units of 1e-5 km
ReferenceAltitude == 387553

\* the args of a stored result, for a given altitude
ArgsAt(alt) == [CalcArgs("directivity") EXCEPT !.altitude = alt]

Altitudes == {ReferenceAltitude, 400000}

\* per-bin values of (effective_area, geometric, pexit, pdecay, ptrigger)
Profiles ==
  {[effective_area |-> Rat(1, 4), geometric |-> Rat(1, 1), pexit |-> Rat(1, 2),
    pdecay |-> Rat(1, 2), ptrigger |-> Rat(1, 1)],
   [effective_area |-> Rat(0, 1), geometric |-> Rat(2, 1), pexit |-> Rat(1, 1),
    pdecay |-> Rat(0, 1), ptrigger |-> Rat(0, 1)]}

\* a well-formed EffectiveArea over the grid e: every array has e's length
Stored(e, n, p, alt) ==
  [N0 |-> [b \in DOMAIN e |-> n],
   elevation |-> e,
   effective_area |-> [b \in DOMAIN e |-> Row(p.effective_area)],
   geometric |-> [b \in DOMAIN e |-> p.geometric],
   pexit |-> [b \in DOMAIN e |-> p.pexit],
   pdecay |-> [b \in DOMAIN e |-> p.pdecay],
   ptrigger |-> [b \in DOMAIN e |-> p.ptrigger],
   args |-> ArgsAt(alt)]

\* elevation grids in units of 1e-8 degree
Grids == {<<99998>>, <<99999>>, <<100000>>, <<100001>>, <<99999, 99999>>}

\* the per-bin trial counts N0 of stored results
StoredCounts == {1, 2}

Results(grids, alts) ==
  {Stored(e, n, p, alt) : e \in grids, n \in StoredCounts, p \in Profiles,
                          alt \in alts}

IdleCalc ==
  /\ N = << >> /\ elev = << >> /\ samples = << >> /\ i = 0
  /\ effective_area = << >> /\ geometric = << >> /\ pexit = << >>
  /\ pdecay = << >> /\ ptrigger = << >> /\ Ptrig = << >>
  /\ gain = "unbound" /\ cpc = "idle" /\ ret = None

\* two results in memory, combined in any way, MaxCalls times
InitAdd ==
  /\ heap \in [1..2 -> Results(Grids, Altitudes)]
  /\ log = {}
  /\ IdleCalc
  /\ IdleFiles

NextAdd == \E x, y \in DOMAIN heap : Cardinality(log) < MaxCalls /\ Add(x, y)

SpecAdd == InitAdd /\ [][NextAdd]_vars

\* the identity that heap[x] + heap[y] returned, 0 if it was not evaluated
\* or raised
OutOf(x, y) ==
  IF \E e \in log : e.self = x /\ e.other = y /\ e.out # 0
  THEN (CHOOSE e \in log : e.self = x /\ e.other = y /\ e.out # 0).out
  ELSE 0

Evaluated(x, y) == \E e \in log : e.self = x /\ e.other = y

\* three results A, B, C in memory (identities 1, 2, 3), and the two ways of
\* combining them: (A + B) + C and A + (B + C)
InitAssoc ==
  /\ heap \in [1..3 -> Results({<<99999>>}, {ReferenceAltitude})]
  /\ log = {}
  /\ IdleCalc
  /\ IdleFiles

NextAssoc ==
  \E x, y \in DOMAIN heap :
    /\ ~Evaluated(x, y)
    /\ \/ x = 1 /\ y = 2
       \/ x = 2 /\ y = 3
       \/ OutOf(1, 2) # 0 /\ x = OutOf(1, 2) /\ y = 3
       \/ OutOf(2, 3) # 0 /\ x = 1 /\ y = OutOf(2, 3)
    /\ Add(x, y)

SpecAssoc == InitAssoc /\ [][NextAssoc]_vars

(***************************************************************************)
(* from_file and from_files                                                *)
(***************************************************************************)
\* pickle.load(f): a new instance with the stored content
from_file(h, f) == [heap |-> Append(h, files[f]), out |-> Len(h) + 1]

\* if len(filenames) == 0: raise ValueError
RaiseNoFiles ==
  /\ fpc = "idle"
  /\ Len(filenames) = 0
  /\ fpc' = "raised"
  /\ UNCHANGED <<files, filenames, k, Aeff, opened, skipped>>
  /\ UNCHANGED <<cvars, hvars>>

\* Aeff = from_file(filenames[0])
LoadFirst ==
  /\ fpc = "idle"
  /\ Len(filenames) # 0
  /\ LET r == from_file(heap, filenames[1])
     IN  /\ heap' = r.heap
         /\ Aeff' = r.out
  /\ opened' = opened \cup {filenames[1]}
  /\ k' = 2
  /\ fpc' = "loop"
  /\ UNCHANGED <<files, filenames, skipped, log>>
  /\ UNCHANGED cvars

\* for f in filenames[1:]: A = from_file(f) and the altitude test is true:
\* continue
LoadSkip ==
  /\ fpc = "loop"
  /\ k <= Len(filenames)
  /\ LET r == from_file(heap, filenames[k])
         A == r.out
     IN  /\ r.heap[A].args.altitude = ReferenceAltitude
         /\ heap' = r.heap
  /\ opened' = opened \cup {filenames[k]}
  /\ skipped' = skipped \cup {k}
  /\ k' = k + 1
  /\ UNCHANGED <<files, filenames, Aeff, fpc, log>>
  /\ UNCHANGED cvars

\* the loop body with `Aeff = A` in place of `Aeff += A`
LoadAddRebind ==
  /\ fpc = "loop"
  /\ k <= Len(filenames)
  /\ LET r == from_file(heap, filenames[k])
         A == r.out
     IN  /\ ~(r.heap[A].args.altitude = ReferenceAltitude)
         /\ heap' = r.heap
         /\ Aeff' = A
  /\ k' = k + 1
  /\ opened' = opened \cup {filenames[k]}
  /\ UNCHANGED <<files, filenames, skipped, fpc, log>>
  /\ UNCHANGED cvars

\* for f in filenames[1:]: A = from_file(f); Aeff += A.  EffectiveArea has no
\* __iadd__, so this is Aeff = Aeff.__add__(A); a ValueError ends from_files
LoadAdd ==
  /\ fpc = "loop"
  /\ k <= Len(filenames)
  /\ LET r == from_file(heap, filenames[k])
         A == r.out
         s == add(r.heap, Aeff, A)
     IN  /\ ~(r.heap[A].args.altitude = ReferenceAltitude)
         /\ heap' = s.heap
         /\ log' = log \cup {[self |-> Aeff, other |-> A, out |-> s.out,
                              line |-> s.line]}
         /\ IF s.line # 0
            THEN fpc' = "raised" /\ UNCHANGED <<Aeff, k>>
            ELSE fpc' = fpc /\ Aeff' = s.out /\ k' = k + 1
  /\ opened' = opened \cup {filenames[k]}
  /\ UNCHANGED <<files, filenames, skipped>>
  /\ UNCHANGED cvars

\* return Aeff
ReturnAeff ==
  /\ fpc = "loop"
  /\ k > Len(filenames)
  /\ fpc' = "returned"
  /\ UNCHANGED <<files, filenames, k, Aeff, opened, skipped>>
  /\ UNCHANGED <<cvars, hvars>>

\* up to MaxFiles pickled results on disk, all handed to from_files
InitFiles ==
  /\ files \in SeqsUpTo(Results({<<99999>>, <<100000>>}, Altitudes), MaxFiles)
  /\ filenames = [f \in DOMAIN files |-> f]
  /\ k = 0
  /\ Aeff = 0
  /\ opened = {}
  /\ skipped = {}
  /\ fpc = "idle"
  /\ heap = << >>
  /\ log = {}
  /\ IdleCalc

NextFiles == RaiseNoFiles \/ LoadFirst \/ LoadSkip \/ LoadAdd \/ ReturnAeff

SpecFiles == InitFiles /\ [][NextFiles]_vars

(***************************************************************************)
(* Properties of calculate.                                                *)
(***************************************************************************)
\* the bins calculate has gone through whose batch had trials
Reduced == {b \in DOMAIN elev : b < i /\ Len(samples[b].trials) > 0}

\* sum over trials 1..n of area * dot * Pexit * Pdecay, counting the trials
\* in the set `counted` only
RECURSIVE Credit(_, _, _, _)
Credit(area, trials, counted, n) ==
  IF n = 0 THEN 0
  ELSE Credit(area, trials, counted, n - 1)
       + (IF n \in counted
          THEN area * trials[n].dot * trials[n].Pexit * trials[n].Pdecay
          ELSE 0)

\* C1 as stated: in every returned result, effective_area[i, j] is at most
\* geometric[i] * pexit[i] * pdecay[i], the product of the per-bin means.
C1_ProductOfMeansBound ==
  cpc = "returned" =>
    \A b \in DOMAIN ret.elevation : \A j \in 1..AzimuthsSize :
      RLeq(ret.effective_area[b][j],
           RMul(RMul(ret.geometric[b], ret.pexit[b]), ret.pdecay[b]))

\* C1 amended: in every returned result, effective_area[i, j] is at most the
\* same sum without the trigger factor, sum(area * dot * Pexit * Pdecay) / N[i],
\* which is at most geometric[i].
C1_TriggerOnlyReduces ==
  cpc = "returned" =>
    \A b \in DOMAIN ret.elevation : \A j \in 1..AzimuthsSize :
      LET tr == samples[b].trials
          untriggered ==
            IF Len(tr) = 0 THEN Zero
            ELSE Rat(Credit(samples[b].area, tr, DOMAIN tr, Len(tr)), N[b])
      IN  /\ RLeq(ret.effective_area[b][j], untriggered)
          /\ RLeq(untriggered, ret.geometric[b])

\* a returned result with a two-trial bin in which one trial lost its trigger
\* and the other contributes: the effective area is positive and strictly
\* below its geometric area
C1_Witness ==
  /\ cpc = "returned"
  /\ \E b \in DOMAIN ret.elevation :
       /\ Len(samples[b].trials) = 2
       /\ N[b] = 2
       /\ \E t \in 1..2 : samples[b].trials[t].Ptrig /\ samples[b].trials[t].theta > 0
       /\ ret.effective_area[b][1] # Zero
       /\ ret.effective_area[b][1] # ret.geometric[b]

\* C4 as stated: calculate never raises because of empty batches, and in the
\* result it returns every bin whose batch was empty is zero in geometric,
\* pexit, pdecay, ptrigger and effective_area.
C4_EmptyBatchIsNormal ==
  /\ cpc # "raised"
  /\ cpc = "returned" =>
       \A b \in DOMAIN ret.elevation :
         Len(samples[b].trials) = 0 =>
           /\ ret.geometric[b] = Zero
           /\ ret.pexit[b] = Zero
           /\ ret.pdecay[b] = Zero
           /\ ret.ptrigger[b] = Zero
           /\ \A j \in 1..AzimuthsSize : ret.effective_area[b][j] = Zero

\* the Visibility/Horizon Filter's rule for one trial
Suppressed(t) ==
  \/ t.D > horizon_distance /\ t.theta < horizon_angle
  \/ t.theta > 0

\* the trials of bin b that keep a trigger after the filter
Credited(b) ==
  {t \in DOMAIN samples[b].trials :
     samples[b].trials[t].Ptrig /\ ~Suppressed(samples[b].trials[t])}

\* C8: for every bin that went through the loop body, a suppressed trial has
\* trigger indicator 0 and every other trial keeps its raw indicator, so
\* ptrigger and effective_area count exactly the unsuppressed triggered trials,
\* while pexit, pdecay and geometric are the ones of the unfiltered batch.
C8_FilterOnlyCutsTrigger ==
  \A b \in Reduced :
    LET tr == samples[b].trials
    IN  /\ ptrigger[b] = Rat(Cardinality(Credited(b)), Len(tr))
        /\ \A j \in 1..AzimuthsSize :
             effective_area[b][j] =
               Rat(Credit(samples[b].area, tr, Credited(b), Len(tr)), N[b])
        /\ pexit[b] = Rat(SeqSum(Column(tr, "Pexit")), Len(tr))
        /\ pdecay[b] = Rat(SeqSum(Column(tr, "Pdecay")), Len(tr))
        /\ geometric[b] = Rat(samples[b].area * SeqSum(Column(tr, "dot")), N[b])
        /\ b = i - 1 => \A t \in DOMAIN tr : Ptrig[t] = (t \in Credited(b))

\* a bin with one triggered trial behind and below the horizon (suppressed)
\* and one triggered trial beyond the horizon but not below it (kept)
C8_Witness ==
  /\ 1 \in Reduced
  /\ Len(samples[1].trials) = 2
  /\ LET t1 == samples[1].trials[1]
         t2 == samples[1].trials[2]
     IN  /\ t1.Ptrig /\ t1.D > horizon_distance /\ t1.theta < horizon_angle
         /\ t2.Ptrig /\ t2.D > horizon_distance /\ ~(t2.theta < horizon_angle)
         /\ t2.theta <= 0
         /\ t1.Pexit = 1 /\ t1.Pdecay = 1 /\ t2.Pexit = 1 /\ t2.Pdecay = 1
  /\ ptrigger[1] = Rat(1, 2)

(***************************************************************************)
(* Properties of __add__.                                                  *)
(***************************************************************************)
\* the five averaged fields agree, and so does N0
SameValues(p, q) ==
  /\ p.N0 = q.N0
  /\ p.effective_area = q.effective_area
  /\ p.geometric = q.geometric
  /\ p.pexit = q.pexit
  /\ p.pdecay = q.pdecay
  /\ p.ptrigger = q.ptrigger

\* the 1-D averaged fields
Fields1 == {"geometric", "pexit", "pdecay", "ptrigger"}

Whole(n) == Rat(n, 1)

\* twice r is a + b, for every element of every averaged field
IsMean(r, a, b) ==
  /\ \A f \in Fields1 : \A x \in DOMAIN a[f] :
       RAdd(r[f][x], r[f][x]) = RAdd(a[f][x], b[f][x])
  /\ \A x \in DOMAIN a.effective_area : \A j \in DOMAIN a.effective_area[x] :
       RAdd(r.effective_area[x][j], r.effective_area[x][j])
         = RAdd(a.effective_area[x][j], b.effective_area[x][j])

Combinable(a, b) ==
  /\ Len(a.elevation) = Len(b.elevation)
  /\ \A x \in DOMAIN a.elevation : isclose(a.elevation[x], b.elevation[x])
  /\ a.args = b.args

\* C5: when the grids have equal length and are close and the args are equal,
\* self + other succeeds, N0 is the elementwise sum and every averaged field is
\* the unweighted mean; A + A has A's averaged fields and twice A's N0.
C5_SumAndUnweightedMean ==
  \A e \in log :
    LET a == heap[e.self]
        b == heap[e.other]
    IN  Combinable(a, b) =>
          /\ e.out # 0
          /\ e.out \in DOMAIN heap
          /\ LET r == heap[e.out]
             IN  /\ \A x \in DOMAIN a.N0 : r.N0[x] = a.N0[x] + b.N0[x]
                 /\ DOMAIN r.N0 = DOMAIN a.N0
                 /\ IsMean(r, a, b)
                 /\ e.self = e.other =>
                      /\ r.effective_area = a.effective_area
                      /\ \A f \in Fields1 : r[f] = a[f]
                      /\ \A x \in DOMAIN a.N0 : r.N0[x] = 2 * a.N0[x]

\* two different results with different trial counts and different values
\* were combined, and one of them was combined with itself
C5_Witness ==
  /\ \E e \in log :
       /\ e.out # 0
       /\ heap[e.self].N0 # heap[e.other].N0
       /\ heap[e.self].pexit # heap[e.other].pexit
       /\ heap[e.self].elevation # heap[e.other].elevation
  /\ \E e \in log : e.out # 0 /\ e.self = e.other

\* the calls A + B and B + A, both made
Mirrored(e1, e2) == e1.self = e2.other /\ e1.other = e2.self /\ e1.self # e1.other

\* C6 as stated: A + B and B + A have exactly equal N0 and averaged fields,
\* and A + B raises exactly when B + A raises.
C6_Commutative ==
  \A e1, e2 \in log :
    Mirrored(e1, e2) =>
      /\ (e1.out = 0) <=> (e2.out = 0)
      /\ (e1.out # 0 /\ e2.out # 0) => SameValues(heap[e1.out], heap[e2.out])

\* C6 amended: when A + B and B + A both succeed they have exactly equal N0 and
\* averaged fields; a size mismatch or an args mismatch raises in both orders;
\* only the closeness test, whose tolerance grows with |other.elevation|, can
\* raise in one order and pass in the other.
C6_CommutativeWhenBothSucceed ==
  \A e1, e2 \in log :
    Mirrored(e1, e2) =>
      /\ (e1.out # 0 /\ e2.out # 0) => SameValues(heap[e1.out], heap[e2.out])
      /\ e1.line \in {68, 92} => e2.out = 0
      /\ (e1.out = 0 /\ e2.out # 0) => e1.line = 77

\* A + B and B + A both succeeded on results with different counts and values
C6_Witness ==
  \E e1, e2 \in log :
    /\ Mirrored(e1, e2)
    /\ e1.out # 0 /\ e2.out # 0
    /\ heap[e1.self].N0 # heap[e1.other].N0
    /\ heap[e1.self].geometric # heap[e1.other].geometric

\* C7: a call whose operands differ in grid length raises at the size check,
\* one whose grids have equal length but are not close raises at the element
\* comparison, one whose args differ raises at the args check; a call that
\* raises returns no instance and leaves every instance as it was.
C7_MismatchRaises ==
  [][\A e \in log' \ log :
       LET a == heap[e.self]
           b == heap[e.other]
           sameSize == Len(a.elevation) = Len(b.elevation)
           close == \A x \in DOMAIN a.elevation : isclose(a.elevation[x], b.elevation[x])
       IN  /\ ~sameSize => e.line = 68
           /\ (sameSize /\ ~close) => e.line = 77
           /\ (sameSize /\ close /\ a.args # b.args) => e.line = 92
           /\ ~Combinable(a, b) => (e.line # 0 /\ e.out = 0 /\ heap' = heap)
    ]_vars

\* an args mismatch was raised for two different but close grids, in both
\* orders
C7_Witness ==
  \E e1, e2 \in log :
    /\ Mirrored(e1, e2)
    /\ e1.line = 92 /\ e1.out = 0
    /\ e2.line = 92 /\ e2.out = 0
    /\ heap[e1.self].elevation # heap[e1.other].elevation

\* (A + B) + C and A + (B + C) for the three results of the associativity run
LeftFirst == OutOf(OutOf(1, 2), 3)
RightFirst == OutOf(1, OutOf(2, 3))

\* C2 as stated: (A + B) + C and A + (B + C) have equal N0 and equal averaged
\* fields.
C2_Associative ==
  (OutOf(1, 2) # 0 /\ OutOf(2, 3) # 0 /\ LeftFirst # 0 /\ RightFirst # 0) =>
    SameValues(heap[LeftFirst], heap[RightFirst])

\* x = (wa * a + wb * b + wc * c) / 4
Weighted(x, wa, a, wb, b, wc, c) ==
  RMul(Whole(4), x)
    = RAdd(RAdd(RMul(Whole(wa), a), RMul(Whole(wb), b)), RMul(Whole(wc), c))

\* C2 amended: for results with equal grids and args both groupings succeed
\* and have equal N0 = A.N0 + B.N0 + C.N0, and both have A's elevation and
\* A's args; in exact arithmetic every averaged field of (A + B) + C is
\* A/4 + B/4 + C/2 and of A + (B + C) is A/2 + B/4 + C/4, so the two are
\* equal in an element where A and C are equal there and, in exact
\* arithmetic, differ in every element where A and C differ.
C2_AssociativeInN0Only ==
  /\ \A e \in log : e.out # 0
  /\ (OutOf(1, 2) # 0 /\ OutOf(2, 3) # 0 /\ LeftFirst # 0 /\ RightFirst # 0) =>
       LET l == heap[LeftFirst]
           r == heap[RightFirst]
           A == heap[1]
           B == heap[2]
           C == heap[3]
       IN  /\ l.N0 = r.N0
           /\ l.elevation = A.elevation /\ r.elevation = A.elevation
           /\ l.args = A.args /\ r.args = A.args
           /\ \A x \in DOMAIN A.N0 : l.N0[x] = A.N0[x] + B.N0[x] + C.N0[x]
           /\ \A f \in Fields1 : \A x \in DOMAIN A[f] :
                /\ Weighted(l[f][x], 1, A[f][x], 1, B[f][x], 2, C[f][x])
                /\ Weighted(r[f][x], 2, A[f][x], 1, B[f][x], 1, C[f][x])
                /\ (l[f][x] = r[f][x]) <=> (A[f][x] = C[f][x])
           /\ \A x \in DOMAIN A.effective_area : \A j \in 1..AzimuthsSize :
                /\ Weighted(l.effective_area[x][j], 1, A.effective_area[x][j],
                            1, B.effective_area[x][j], 2, C.effective_area[x][j])
                /\ Weighted(r.effective_area[x][j], 2, A.effective_area[x][j],
                            1, B.effective_area[x][j], 1, C.effective_area[x][j])
                /\ (l.effective_area[x][j] = r.effective_area[x][j])
                     <=> (A.effective_area[x][j] = C.effective_area[x][j])

\* both groupings evaluated for A and C with different values
C2_Witness ==
  /\ OutOf(1, 2) # 0 /\ OutOf(2, 3) # 0 /\ LeftFirst # 0 /\ RightFirst # 0
  /\ heap[1].pexit # heap[3].pexit
  /\ heap[1].N0 # heap[2].N0

(***************************************************************************)
(* Properties of from_files.                                               *)
(***************************************************************************)
\* C3 as stated: an entry after the first is skipped exactly when its
\* recorded altitude differs from the reference value, and is combined with
\* __add__ when it equals it.
C3_SkipsOtherAltitudes ==
  \A j \in 2..Len(filenames) :
    j < k =>
      (j \in skipped <=> files[filenames[j]].args.altitude # ReferenceAltitude)

\* C9: no step changes an EffectiveArea that existed before it, and the
\* instance an __add__ returns is one that did not exist before.
C9_OperandsUnchanged ==
  [][/\ \A id \in DOMAIN heap : id \in DOMAIN heap' /\ heap'[id] = heap[id]
     /\ \A e \in log' \ log :
          e.out # 0 => (e.out \notin DOMAIN heap /\ e.out \in DOMAIN heap'
                        /\ e.out # e.self /\ e.out # e.other)
    ]_vars

\* from_files returned after two chained combinations
C9_Witness ==
  /\ fpc = "returned"
  /\ Cardinality({e \in log : e.out # 0}) = 2
  /\ Len(heap) = 5

\* sum of the N0 of the files at positions 2..n that were not skipped
RECURSIVE LaterN0(_, _)
LaterN0(n, x) ==
  IF n < 2 THEN 0
  ELSE LaterN0(n - 1, x)
       + (IF n \in skipped THEN 0 ELSE files[filenames[n]].N0[x])

\* C10: with no file names from_files raises before opening any file; with
\* some, the first file is the base and is never skipped, the returned N0 is
\* the first file's N0 plus the N0 of the later files that were not skipped,
\* and a single file is returned as stored.
C10_FirstFileIsBase ==
  /\ Len(filenames) = 0 =>
       (fpc \in {"idle", "raised"} /\ opened = {} /\ heap = << >>)
  /\ fpc = "returned" =>
       LET first == files[filenames[1]]
           r == heap[Aeff]
       IN  /\ 1 \notin skipped
           /\ 1 \in opened
           /\ r.elevation = first.elevation
           /\ r.args = first.args
           /\ \A x \in DOMAIN first.N0 :
                r.N0[x] = first.N0[x] + LaterN0(Len(filenames), x)
           /\ Len(filenames) = 1 => r = first

\* from_files returned for three files, of which one later file was skipped
\* and one was combined into the first
C10_Witness ==
  /\ fpc = "returned"
  /\ Len(filenames) = 3
  /\ skipped # {}
  /\ \E e \in log : e.out # 0

====
